---- MODULE Spec2Model ----
(***************************************************************************)
(* TidyCore organization engine (tidycore/engine.py), the restart          *)
(* coordinator (main.py) and the configuration loader                      *)
(* (tidycore/config_manager.py) as a state machine.                        *)
(*                                                                         *)
(* A base name is a sequence of tokens: "." , " ", "(", ")" and digits are *)
(* tokens of their own, a run of the other characters is one token, so     *)
(* report.PDF is <<"report", ".", "PDF">>.  A path is the sequence of base *)
(* names below the target folder; <<>> is the target folder itself.        *)
(***************************************************************************)
EXTENDS Integers, Sequences, FiniteSets, TLC

\* ------------------------------------------------------------------ bounds
MaxTime == 3
MaxCreates == 2
MaxEngines == 2
MaxErrorLogs == 2
MaxConflicts == 3

\* ------------------------------------------------------------- base names
None == <<>>
Others == <<"Others">>
Docs == <<"Docs">>
Pics == <<"Pics">>
ExtensionsKey == <<"__extensions__">>

ReportPdf == <<"report", ".", "PDF">>
NotesTmp == <<"notes", ".", "TMP">>
Desktop == <<"desktop", ".", "ini">>
Hidden == <<".", "cache">>
Project == <<"project">>
Inner == <<"inner", ".", "pdf">>

\* str.lower() on one token
Lower(t) ==
  CASE t = "PDF" -> "pdf"
    [] t = "Pdf" -> "pdf"
    [] t = "PNG" -> "png"
    [] t = "CR2" -> "cr2"
    [] t = "TMP" -> "tmp"
    [] t = "Others" -> "others"
    [] t = "Docs" -> "docs"
    [] t = "Pics" -> "pics"
    [] OTHER -> t

LowerName(s) == [i \in 1..Len(s) |-> Lower(s[i])]

\* str.rfind("."): the last index holding ".", 0 when there is none
RFindDot(s) ==
  LET idx == {i \in 1..Len(s) : s[i] = "."}
  IN IF idx = {} THEN 0 ELSE CHOOSE i \in idx : \A j \in idx : j <= i

\* os.path.splitext(base)[1]: the part from the last dot on, unless only
\* dots precede that dot
SplitExt(s) ==
  LET d == RFindDot(s)
  IN IF d > 0 /\ \E i \in 1..(d - 1) : s[i] # "."
       THEN SubSeq(s, d, Len(s))
       ELSE <<>>

\* pathlib PurePath.suffix and PurePath.stem
Suffix(s) ==
  LET d == RFindDot(s)
  IN IF 1 < d /\ d < Len(s) THEN SubSeq(s, d, Len(s)) ELSE <<>>

Stem(s) ==
  LET d == RFindDot(s)
  IN IF 1 < d /\ d < Len(s) THEN SubSeq(s, 1, d - 1) ELSE s

\* str(counter) as digit tokens
Digit(n) ==
  CASE n = 0 -> "0" [] n = 1 -> "1" [] n = 2 -> "2" [] n = 3 -> "3"
    [] n = 4 -> "4" [] n = 5 -> "5" [] n = 6 -> "6" [] n = 7 -> "7"
    [] n = 8 -> "8" [] n = 9 -> "9"

RECURSIVE Str(_)
Str(n) == IF n < 10 THEN <<Digit(n)>> ELSE Str(n \div 10) \o <<Digit(n % 10)>>

\* ------------------------------------------------------------------ paths
BaseName(p) == IF p = <<>> THEN <<>> ELSE p[Len(p)]
Parent(p) == SubSeq(p, 1, Len(p) - 1)
IsPrefix(p, q) == Len(p) <= Len(q) /\ SubSeq(q, 1, Len(p)) = p
Prefixes(p) == {SubSeq(p, 1, k) : k \in 1..Len(p)}
Range(s) == {s[i] : i \in 1..Len(s)}

Exists(p, fl, ds) == p = <<>> \/ p \in fl \/ p \in ds
IsDir(p, ds) == p = <<>> \/ p \in ds
IsFile(p, fl) == p \in fl

\* ---------------------------------------------------------- configuration
\* The rule table keeps the insertion order of the JSON object: a sequence
\* of entries, each a list of extensions or a dict of sub-category lists.
FlatRule(cat, exts) == [name |-> cat, kind |-> "list", list |-> exts, dict |-> <<>>]
NestedRule(cat, subs) == [name |-> cat, kind |-> "dict", list |-> <<>>, dict |-> subs]

RawRules == <<FlatRule(Docs, << <<".", "PDF">>, <<".", "docx">> >>)>>

\* config.json as stored; cooldown_period_seconds is the user's setting
RawConfig(strategy) ==
  [exists |-> TRUE,
   target_folder |-> "downloads",
   rules |-> RawRules,
   ignore_list |-> << Desktop, <<".", "tmp">> >>,
   cooldown_period_seconds |-> 1,
   folder_handling_strategy |-> strategy]

Strategies == {"smart_scan", "move_to_others", "ignore"}
ExistingDirs == {"downloads"}

LowerExts(exts) == [i \in 1..Len(exts) |-> LowerName(exts[i])]

LowerRule(r) ==
  IF r.kind = "list"
    THEN [r EXCEPT !.list = LowerExts(r.list)]
    ELSE [r EXCEPT !.dict = [i \in 1..Len(r.dict) |->
                               [key |-> r.dict[i].key, exts |-> LowerExts(r.dict[i].exts)]]]

\* load_config raising the same error for a missing file as for a bad target
load_config_one_error(file) ==
  IF ~file.exists \/ file.target_folder = "" \/ file.target_folder \notin ExistingDirs
    THEN [ok |-> FALSE, error |-> "ValueError"]
  ELSE [ok |-> TRUE,
        config |-> [file EXCEPT !.rules = [i \in 1..Len(file.rules) |-> LowerRule(file.rules[i])]]]

\* load_config keeping the rule extensions as they are spelled
load_config_as_stored(file) ==
  IF ~file.exists
    THEN [ok |-> FALSE, error |-> "FileNotFoundError"]
  ELSE IF file.target_folder = "" \/ file.target_folder \notin ExistingDirs
    THEN [ok |-> FALSE, error |-> "ValueError"]
  ELSE [ok |-> TRUE, config |-> file]

\* load_config: a missing file and an invalid target folder raise distinct
\* errors; otherwise the rule extensions are lowercased
load_config(file) ==
  IF ~file.exists
    THEN [ok |-> FALSE, error |-> "FileNotFoundError"]
  ELSE IF file.target_folder = "" \/ file.target_folder \notin ExistingDirs
    THEN [ok |-> FALSE, error |-> "ValueError"]
  ELSE [ok |-> TRUE,
        config |-> [file EXCEPT !.rules = [i \in 1..Len(file.rules) |-> LowerRule(file.rules[i])]]]

\* TidyCoreEngine.__init__: managed_categories = list(rules.keys()) + ["Others"]
managed_categories(cfg) == {cfg.rules[i].name : i \in 1..Len(cfg.rules)} \cup {Others}

\* ---------------------------------------------------------- rule matcher
RECURSIVE FirstSub(_, _, _)
FirstSub(subs, ext, i) ==
  IF i > Len(subs) THEN None
  ELSE IF subs[i].key # ExtensionsKey /\ ext \in Range(subs[i].exts) THEN subs[i].key
  ELSE FirstSub(subs, ext, i + 1)

FlatExtensions(subs) ==
  LET idx == {i \in 1..Len(subs) : subs[i].key = ExtensionsKey}
  IN IF idx = {} THEN {} ELSE Range(subs[CHOOSE i \in idx : TRUE].exts)

\* the rule loop trying the named sub-categories before "__extensions__"
RECURSIVE MatchRules_subs_first(_, _, _)
MatchRules_subs_first(rules, ext, i) ==
  IF i > Len(rules) THEN <<Others, None>>
  ELSE LET r == rules[i] IN
    IF r.kind = "list"
      THEN IF ext \in Range(r.list) THEN <<r.name, None>>
           ELSE MatchRules_subs_first(rules, ext, i + 1)
      ELSE IF FirstSub(r.dict, ext, 1) # None
             THEN <<r.name, FirstSub(r.dict, ext, 1)>>
           ELSE IF ext \in FlatExtensions(r.dict) THEN <<r.name, None>>
           ELSE MatchRules_subs_first(rules, ext, i + 1)

RECURSIVE MatchRules(_, _, _)
MatchRules(rules, ext, i) ==
  IF i > Len(rules) THEN <<Others, None>>
  ELSE LET r == rules[i] IN
    IF r.kind = "list"
      THEN IF ext \in Range(r.list) THEN <<r.name, None>>
           ELSE MatchRules(rules, ext, i + 1)
      ELSE IF ext \in FlatExtensions(r.dict) THEN <<r.name, None>>
           ELSE IF FirstSub(r.dict, ext, 1) # None
                  THEN <<r.name, FirstSub(r.dict, ext, 1)>>
                  ELSE MatchRules(rules, ext, i + 1)

\* _get_category for a regular file
FileCategory(p, cfg) ==
  LET ext == LowerName(SplitExt(BaseName(p)))
  IN IF ext = <<>> THEN <<Others, None>> ELSE MatchRules(cfg.rules, ext, 1)

\* the folder classifier letting the last category with the highest tally win
_get_folder_dominant_category_last_max(folder, cfg, fl) ==
  LET inside == {f \in fl : IsPrefix(folder, f) /\ f # folder}
      count(i) == Cardinality({f \in inside : FileCategory(f, cfg)[1] = cfg.rules[i].name})
      idx == 1..Len(cfg.rules)
  IN IF \A i \in idx : count(i) = 0
       THEN Others
       ELSE cfg.rules[CHOOSE i \in idx :
                        /\ \A j \in idx : count(j) <= count(i)
                        /\ \A j \in idx : j > i => count(j) < count(i)].name

\* _get_folder_dominant_category: the first category in table order that
\* holds the highest tally; "Others" when every tally is zero
_get_folder_dominant_category(folder, cfg, fl) ==
  LET inside == {f \in fl : IsPrefix(folder, f) /\ f # folder}
      count(i) == Cardinality({f \in inside : FileCategory(f, cfg)[1] = cfg.rules[i].name})
      idx == 1..Len(cfg.rules)
  IN IF \A i \in idx : count(i) = 0
       THEN Others
       ELSE cfg.rules[CHOOSE i \in idx :
                        /\ \A j \in idx : count(j) <= count(i)
                        /\ \A j \in idx : j < i => count(j) < count(i)].name

_get_category(p, cfg, fl, ds) ==
  IF IsDir(p, ds)
    THEN IF cfg.folder_handling_strategy = "smart_scan"
           THEN <<_get_folder_dominant_category(p, cfg, fl), None>>
           ELSE <<Others, None>>
  ELSE IF IsFile(p, fl) THEN FileCategory(p, cfg)
  ELSE <<Others, None>>

\* ------------------------------------------------------ eligibility filter
\* the filter comparing the extension as spelled, without .lower()
_should_process_as_spelled(p, cfg, fl, ds) ==
  LET base_name == BaseName(p)
      ext == SplitExt(base_name)
  IN IF /\ cfg.folder_handling_strategy = "ignore"
        /\ IsDir(p, ds)
        /\ base_name \notin managed_categories(cfg)
       THEN FALSE
     ELSE IF ~Exists(p, fl, ds) THEN FALSE
     ELSE IF \/ base_name \in Range(cfg.ignore_list)
             \/ (ext # <<>> /\ ext \in Range(cfg.ignore_list))
       THEN FALSE
     ELSE IF base_name # <<>> /\ base_name[1] = "." THEN FALSE
     ELSE IF IsDir(p, ds) /\ base_name \in managed_categories(cfg) THEN FALSE
     ELSE TRUE

\* _should_process(path): the checks in the order of the code
_should_process(p, cfg, fl, ds) ==
  LET base_name == BaseName(p)
      ext == LowerName(SplitExt(base_name))
  IN IF /\ cfg.folder_handling_strategy = "ignore"
        /\ IsDir(p, ds)
        /\ base_name \notin managed_categories(cfg)
       THEN FALSE
     ELSE IF ~Exists(p, fl, ds) THEN FALSE
     ELSE IF \/ base_name \in Range(cfg.ignore_list)
             \/ (ext # <<>> /\ ext \in Range(cfg.ignore_list))
       THEN FALSE
     ELSE IF base_name # <<>> /\ base_name[1] = "." THEN FALSE
     ELSE IF IsDir(p, ds) /\ base_name \in managed_categories(cfg) THEN FALSE
     ELSE TRUE

\* ------------------------------------------------------ conflict resolver
Numbered(p, n) ==
  Parent(p) \o <<Stem(BaseName(p)) \o <<" ", "(">> \o Str(n) \o <<")">> \o Suffix(BaseName(p))>>

RECURSIVE Probe(_, _, _, _)
Probe(p, n, fl, ds) ==
  IF ~Exists(Numbered(p, n), fl, ds) THEN Numbered(p, n) ELSE Probe(p, n + 1, fl, ds)

\* the resolver numbering from 2
_resolve_conflict_from_two(p, fl, ds) == IF ~Exists(p, fl, ds) THEN p ELSE Probe(p, 2, fl, ds)

_resolve_conflict(p, fl, ds) == IF ~Exists(p, fl, ds) THEN p ELSE Probe(p, 1, fl, ds)

\* ------------------------------------------------------- filesystem calls
\* os.makedirs(d, exist_ok=True) raises when a component of d is a file; the
\* components before that one have been created by then
MakedirsFails(d, fl) == \E q \in Prefixes(d) : q \in fl
Makedirs(d, fl, ds) == ds \cup {q \in Prefixes(d) : \A r \in Prefixes(q) : r \notin fl}

\* shutil.move(src, dst) onto a free path: src and all below it are renamed
Rebase(q, src, dst) == dst \o SubSeq(q, Len(src) + 1, Len(q))
MoveSet(S, src, dst) ==
  {q \in S : ~IsPrefix(src, q)} \cup {Rebase(q, src, dst) : q \in {x \in S : IsPrefix(src, x)}}

\* shutil.move(src, dst) whatever is at dst when it runs: an existing
\* directory receives src under its own base name, an existing file is
\* replaced by a file and makes the move of a directory fail
ShutilMove(src, dst, fl, ds) ==
  LET real_dst == IF dst \in ds THEN dst \o <<BaseName(src)>> ELSE dst
  IN IF ~Exists(src, fl, ds) THEN [ok |-> FALSE, files |-> fl, dirs |-> ds, hit |-> {}]
     ELSE IF dst \in ds /\ Exists(real_dst, fl, ds)
       THEN [ok |-> FALSE, files |-> fl, dirs |-> ds, hit |-> {}]
     ELSE IF real_dst \in fl /\ src \in ds
       THEN [ok |-> FALSE, files |-> fl, dirs |-> ds, hit |-> {}]
     ELSE [ok |-> TRUE,
           files |-> MoveSet(fl, src, real_dst),
           dirs |-> MoveSet(ds, src, real_dst),
           hit |-> {q \in {dst} : Exists(dst, fl, ds)}]

\* ------------------------------------------------------------------ state
EngineIds == 1..MaxEngines

VARIABLES
  files,                 \* paths below the target folder that are regular files
  dirs,                  \* paths below the target folder that are directories
  now,                   \* time.time()
  touched,               \* entries the user has created or modified so far
  configFile,            \* config.json on disk
  pc,                    \* per engine: where its worker thread stands in run()
  config,                \* per engine: self.config
  is_running,            \* per engine: self.is_running
  observer,              \* per engine: the watchdog observer thread
  events,                \* per engine: watch events not yet dispatched
  cooldown_files,        \* per engine: insertion-ordered <<path, detected_time>>
  entries_to_process,    \* per engine: initial_scan's list, not yet organized
  ready_to_process,      \* per engine: the running flush's list, not yet handled
  files_organized_today,
  files_organized_total,
  exc,                   \* per engine: an exception escaped _organize_item
  tick_now,              \* per engine: `now` of the running _process_cooldown_files
  stopSignal,            \* per engine: "Engine stop signal received." was logged
  sinceResume,           \* per engine: "resumed" until the next tick starts,
                         \*             "ticking" during that tick, else "no"
  lastStatus,            \* the value of the latest status_changed signal
  errorLogs,             \* "[ERROR]" log_message signals emitted so far
  current_engine,        \* main.current_engine, 0 for None
  guiEngine,             \* TidyCoreGUI.engine
  restartPc,             \* restart_engine_flow: "idle" or "sleep"; main(): "main", "exited"
  restartResult,         \* how the latest restart_engine_flow ended
  decisions,             \* the GUI's FolderDecisionWidgets: engine, original_path, new_path
  undoing,               \* the undo_move call the GUI thread is inside of, if any
  undoLogs,              \* "[UNDO]" log_message signals emitted so far
  config_changed,        \* config_changed signals emitted so far
  saves,                 \* save_config calls made so far
  clobbered,             \* paths whose entry a move replaced or merged into
  restored,              \* entries of the target folder put there by an undo_move
  probe                  \* the latest call of a pure function: arguments and result

fsVars == <<files, dirs>>
envVars == <<now, touched, configFile>>
engineVars == <<pc, config, is_running, observer, events, cooldown_files,
                entries_to_process, ready_to_process, files_organized_today,
                files_organized_total, exc, tick_now, stopSignal, sinceResume>>
histVars == <<stopSignal, sinceResume>>
signalVars == <<lastStatus, errorLogs>>
mainVars == <<current_engine, guiEngine, restartPc, restartResult>>
callVars == <<undoing, undoLogs, config_changed, saves, clobbered, restored, probe>>
vars == <<fsVars, envVars, engineVars, signalVars, mainVars, decisions, callVars>>

\* no call in progress, no call made yet
NoCall == [fn |-> "none"]

\* status_changed carries a bool: True if running, False if paused
Status(b) == IF b THEN "running" ELSE "paused"

Keys(cf) == {cf[i][1] : i \in 1..Len(cf)}
Remove(cf, p) == SelectSeq(cf, LAMBDA x : x[1] # p)
IsAlive(e) == observer[e] \in {"alive", "stopping"}
Watching == {e \in EngineIds : observer[e] = "alive"}

\* A watch event for path p reaches every subscription that is alive
Notify(S) == [e \in EngineIds |-> IF e \in Watching THEN events[e] \cup S ELSE events[e]]

\* TidyCoreEngine(config) followed by Thread(target=engine.run).start()
Construct(e, cfg) ==
  /\ pc' = [pc EXCEPT ![e] = "start"]
  /\ config' = [config EXCEPT ![e] = cfg]
  /\ is_running' = [is_running EXCEPT ![e] = TRUE]
  /\ observer' = [observer EXCEPT ![e] = "new"]
  /\ cooldown_files' = [cooldown_files EXCEPT ![e] = <<>>]
  /\ files_organized_today' = [files_organized_today EXCEPT ![e] = 0]
  /\ files_organized_total' = [files_organized_total EXCEPT ![e] = 0]

\* a fresh engine 1, nothing observed yet, whatever the target folder holds
InitEngine ==
  /\ now = 0 /\ touched = 0
  /\ pc = [e \in EngineIds |-> IF e = 1 THEN "start" ELSE "absent"]
  /\ is_running = [e \in EngineIds |-> TRUE]
  /\ observer = [e \in EngineIds |-> "new"]
  /\ events = [e \in EngineIds |-> {}]
  /\ cooldown_files = [e \in EngineIds |-> <<>>]
  /\ entries_to_process = [e \in EngineIds |-> {}]
  /\ ready_to_process = [e \in EngineIds |-> <<>>]
  /\ files_organized_today = [e \in EngineIds |-> 0]
  /\ files_organized_total = [e \in EngineIds |-> 0]
  /\ exc = [e \in EngineIds |-> FALSE]
  /\ tick_now = [e \in EngineIds |-> 0]
  /\ stopSignal = [e \in EngineIds |-> FALSE]
  /\ sinceResume = [e \in EngineIds |-> "no"]
  /\ lastStatus = "none"
  /\ errorLogs = 0
  /\ current_engine = 1 /\ guiEngine = 1
  /\ restartPc = "idle"
  /\ restartResult = "none"
  /\ decisions = {}
  /\ undoing = NoCall
  /\ undoLogs = 0
  /\ config_changed = 0
  /\ saves = 0
  /\ clobbered = {}
  /\ restored = {}
  /\ probe = NoCall

InitCommon == files = {} /\ InitEngine

\* main(): start_engine_thread loaded config.json and started engine 1
Init ==
  /\ InitCommon
  /\ dirs = {}
  /\ configFile = RawConfig("smart_scan")
  /\ config = [e \in EngineIds |-> load_config(configFile).config]

\* ------------------------------------------------------ categorize and move
DestinationDir(p, cfg, fl, ds) ==
  LET c == _get_category(p, cfg, fl, ds)
  IN IF c[2] # None /\ c[2] # c[1] THEN <<c[1], c[2]>> ELSE <<c[1]>>

\* os.makedirs is outside _organize_item's try block: its exception escapes
OrganizeRaises(e, p) ==
  /\ Exists(p, files, dirs)
  /\ MakedirsFails(DestinationDir(p, config[e], files, dirs), files)

\* shutil.move ran and succeeded
OrganizeMoves(e, p, moveOk) ==
  /\ Exists(p, files, dirs)
  /\ ~OrganizeRaises(e, p)
  /\ p # DestinationDir(p, config[e], files, dirs)
  /\ moveOk

\* folder_decision_made(original_path, new_path, category) makes the GUI add
\* one more FolderDecisionWidget, holding the engine the GUI refers to
FolderDecision(p, dest) ==
  [widget |-> Cardinality(decisions) + 1,
   engine |-> guiEngine, original_path |-> p, new_path |-> dest,
   undo_enabled |-> TRUE, ignore_enabled |-> TRUE]

\* _organize_item counting the item before shutil.move has succeeded
_organize_item_counting_first(e, p, moveOk) ==
  LET dest_dir == DestinationDir(p, config[e], files, dirs)
      ds1 == Makedirs(dest_dir, files, dirs)
      made == {q \in ds1 \ dirs : Len(q) = 1}
      dest == _resolve_conflict(dest_dir \o <<BaseName(p)>>, files, ds1)
  IN IF ~Exists(p, files, dirs)
       THEN UNCHANGED <<files, dirs, events, files_organized_today,
                        files_organized_total, errorLogs, decisions>>
     ELSE IF OrganizeRaises(e, p) \/ p = dest_dir
       THEN /\ dirs' = ds1
            /\ events' = Notify(made)
            /\ UNCHANGED <<files, files_organized_today, files_organized_total,
                           errorLogs, decisions>>
     ELSE IF moveOk /\ ~IsPrefix(p, dest)
       THEN /\ files' = MoveSet(files, p, dest)
            /\ dirs' = MoveSet(ds1, p, dest)
            /\ events' = Notify(made)
            /\ files_organized_today' = [files_organized_today EXCEPT ![e] = @ + 1]
            /\ files_organized_total' = [files_organized_total EXCEPT ![e] = @ + 1]
            /\ decisions' = IF IsDir(p, dirs)
                               THEN decisions \cup {FolderDecision(p, dest)}
                               ELSE decisions
            /\ UNCHANGED errorLogs
     ELSE /\ dirs' = ds1
          /\ events' = Notify(made)
          /\ errorLogs' = errorLogs + 1
          /\ files_organized_today' = [files_organized_today EXCEPT ![e] = @ + 1]
          /\ files_organized_total' = [files_organized_total EXCEPT ![e] = @ + 1]
          /\ UNCHANGED <<files, decisions>>

\* _organize_item(path); moveOk is whether shutil.move succeeds, which it
\* never does for a directory moved into itself
_organize_item(e, p, moveOk) ==
  LET dest_dir == DestinationDir(p, config[e], files, dirs)
      ds1 == Makedirs(dest_dir, files, dirs)
      made == {q \in ds1 \ dirs : Len(q) = 1}
      dest == _resolve_conflict(dest_dir \o <<BaseName(p)>>, files, ds1)
  IN IF ~Exists(p, files, dirs)
       THEN UNCHANGED <<files, dirs, events, files_organized_today,
                        files_organized_total, errorLogs, decisions>>
     ELSE IF OrganizeRaises(e, p) \/ p = dest_dir
       THEN /\ dirs' = ds1
            /\ events' = Notify(made)
            /\ UNCHANGED <<files, files_organized_today, files_organized_total,
                           errorLogs, decisions>>
     ELSE IF moveOk /\ ~IsPrefix(p, dest)
       THEN /\ files' = MoveSet(files, p, dest)
            /\ dirs' = MoveSet(ds1, p, dest)
            /\ events' = Notify(made)
            /\ files_organized_today' = [files_organized_today EXCEPT ![e] = @ + 1]
            /\ files_organized_total' = [files_organized_total EXCEPT ![e] = @ + 1]
            /\ decisions' = IF IsDir(p, dirs)
                               THEN decisions \cup {FolderDecision(p, dest)}
                               ELSE decisions
            /\ UNCHANGED errorLogs
     ELSE /\ dirs' = ds1
          /\ events' = Notify(made)
          /\ errorLogs' = errorLogs + 1
          /\ UNCHANGED <<files, files_organized_today, files_organized_total, decisions>>

\* ------------------------------------------------------------- the worker
\* initial_scan, first loop: os.scandir filtered by _should_process
InitialScanCollect(e) ==
  /\ pc[e] = "start"
  /\ entries_to_process' = [entries_to_process EXCEPT ![e] =
       {q \in files \cup dirs : Len(q) = 1 /\ _should_process(q, config[e], files, dirs)}]
  /\ pc' = [pc EXCEPT ![e] = "scan"]
  /\ UNCHANGED <<decisions, callVars, fsVars, envVars, config, is_running, observer, events, cooldown_files,
                 ready_to_process, files_organized_today, files_organized_total, exc,
                 signalVars, mainVars,
                 tick_now, histVars>>

\* initial_scan, second loop: one entry, in the order scandir returned them;
\* an exception ends the thread before the observer is started
ScanOrganize(e) ==
  /\ pc[e] = "scan"
  /\ \E p \in entries_to_process[e], moveOk \in BOOLEAN :
       /\ _organize_item(e, p, moveOk)
       /\ entries_to_process' = [entries_to_process EXCEPT ![e] = @ \ {p}]
       /\ IF OrganizeRaises(e, p)
            THEN /\ pc' = [pc EXCEPT ![e] = "crashed"]
                 /\ exc' = [exc EXCEPT ![e] = TRUE]
            ELSE UNCHANGED <<pc, exc>>
  /\ UNCHANGED <<callVars, envVars, config, is_running, observer, cooldown_files, ready_to_process,
                 lastStatus, mainVars,
                 tick_now, histVars>>

\* the subscription beginning while the scan still has entries to organize
StartObserver_during_scan(e) ==
  /\ pc[e] = "scan"
  /\ observer' = [observer EXCEPT ![e] = "alive"]
  /\ lastStatus' = Status(is_running[e])
  /\ pc' = [pc EXCEPT ![e] = IF entries_to_process[e] = {} THEN "loop" ELSE "scan"]
  /\ UNCHANGED <<decisions, callVars, fsVars, envVars, config, is_running, events, cooldown_files,
                 entries_to_process, ready_to_process, files_organized_today,
                 files_organized_total, exc, errorLogs, mainVars,
                 tick_now, histVars>>

\* observer.schedule, observer.start, status_changed.emit(is_running)
StartObserver(e) ==
  /\ pc[e] = "scan"
  /\ entries_to_process[e] = {}
  /\ observer' = [observer EXCEPT ![e] = "alive"]
  /\ lastStatus' = Status(is_running[e])
  /\ pc' = [pc EXCEPT ![e] = "loop"]
  /\ UNCHANGED <<decisions, callVars, fsVars, envVars, config, is_running, events, cooldown_files,
                 entries_to_process, ready_to_process, files_organized_today,
                 files_organized_total, exc, errorLogs, mainVars,
                 tick_now, histVars>>

\* The same two statements of run() at the grain of the threads: the worker
\* starts the observer and reads self.is_running as the argument of emit ...
ObserverStart(e) ==
  /\ pc[e] = "scan"
  /\ entries_to_process[e] = {}
  /\ observer' = [observer EXCEPT ![e] = "alive"]
  /\ pc' = [pc EXCEPT ![e] = IF is_running[e] THEN "emit running" ELSE "emit paused"]
  /\ UNCHANGED <<decisions, callVars, fsVars, envVars, config, is_running, events, cooldown_files,
                 entries_to_process, ready_to_process, files_organized_today,
                 files_organized_total, exc, signalVars, mainVars,
                 tick_now, histVars>>

\* ... and status_changed.emit is called with the value read
EmitStatus(e) ==
  /\ pc[e] \in {"emit running", "emit paused"}
  /\ lastStatus' = Status(pc[e] = "emit running")
  /\ pc' = [pc EXCEPT ![e] = "loop"]
  /\ UNCHANGED <<decisions, callVars, fsVars, envVars, config, is_running, observer, events,
                 cooldown_files, entries_to_process, ready_to_process, files_organized_today,
                 files_organized_total, exc, errorLogs, mainVars,
                 tick_now, histVars>>

\* _process_cooldown_files, first loop: the paths whose cooldown has expired
Ready(cf, t, cooldown) ==
  LET ripe == SelectSeq(cf, LAMBDA x : t - x[2] > cooldown)
  IN [i \in 1..Len(ripe) |-> ripe[i][1]]

\* while self.observer.is_alive(): if self.is_running: ...
LoopCheck(e) ==
  /\ pc[e] = "loop"
  /\ IF ~IsAlive(e)
       THEN /\ pc' = [pc EXCEPT ![e] = "finally"]
            /\ UNCHANGED <<ready_to_process, tick_now, sinceResume>>
     ELSE IF is_running[e]
       THEN /\ pc' = [pc EXCEPT ![e] = "flush"]
            /\ tick_now' = [tick_now EXCEPT ![e] = now]
            /\ ready_to_process' = [ready_to_process EXCEPT ![e] =
                 Ready(cooldown_files[e], now, config[e].cooldown_period_seconds)]
            /\ sinceResume' = [sinceResume EXCEPT ![e] = IF @ = "resumed" THEN "ticking" ELSE @]
     ELSE /\ pc' = [pc EXCEPT ![e] = "sleep"]
          /\ UNCHANGED <<ready_to_process, tick_now, sinceResume>>
  /\ UNCHANGED <<decisions, callVars, fsVars, envVars, config, is_running, observer, events, cooldown_files,
                 entries_to_process, files_organized_today, files_organized_total, exc,
                 signalVars, mainVars,
                 stopSignal>>

\* _process_cooldown_files, second loop: one ready path; an exception is
\* caught at the loop boundary of run()
FlushItem(e) ==
  /\ pc[e] = "flush"
  /\ ready_to_process[e] # <<>>
  /\ LET p == Head(ready_to_process[e]) IN
       /\ ready_to_process' = [ready_to_process EXCEPT ![e] = Tail(@)]
       /\ cooldown_files' = [cooldown_files EXCEPT ![e] = Remove(@, p)]
       /\ \E moveOk \in BOOLEAN : _organize_item(e, p, moveOk)
       /\ IF OrganizeRaises(e, p)
            THEN /\ pc' = [pc EXCEPT ![e] = "finally"]
                 /\ exc' = [exc EXCEPT ![e] = TRUE]
                 /\ tick_now' = [tick_now EXCEPT ![e] = 0]
                 /\ sinceResume' = [sinceResume EXCEPT ![e] = "no"]
            ELSE UNCHANGED <<pc, exc, tick_now, sinceResume>>
  /\ UNCHANGED <<callVars, envVars, config, is_running, observer, entries_to_process, lastStatus,
                 mainVars,
                 stopSignal>>

FlushDone(e) ==
  /\ pc[e] = "flush"
  /\ ready_to_process[e] = <<>>
  /\ pc' = [pc EXCEPT ![e] = "sleep"]
  /\ tick_now' = [tick_now EXCEPT ![e] = 0]
  /\ sinceResume' = [sinceResume EXCEPT ![e] = IF @ = "ticking" THEN "no" ELSE @]
  /\ UNCHANGED <<decisions, callVars, fsVars, envVars, config, is_running, observer, events, cooldown_files,
                 entries_to_process, ready_to_process, files_organized_today,
                 files_organized_total, exc, signalVars, mainVars,
                 stopSignal>>

\* time.sleep(1)
Sleep(e) ==
  /\ pc[e] = "sleep"
  /\ pc' = [pc EXCEPT ![e] = "loop"]
  /\ UNCHANGED <<decisions, callVars, fsVars, envVars, config, is_running, observer, events, cooldown_files,
                 entries_to_process, ready_to_process, files_organized_today,
                 files_organized_total, exc, signalVars, mainVars,
                 tick_now, histVars>>

\* finally: if self.observer.is_alive(): self.observer.stop()
FinallyStop(e) ==
  /\ pc[e] = "finally"
  /\ observer' = [observer EXCEPT ![e] = IF @ = "alive" THEN "stopping" ELSE @]
  /\ pc' = [pc EXCEPT ![e] = "join"]
  /\ UNCHANGED <<decisions, callVars, fsVars, envVars, config, is_running, events, cooldown_files,
                 entries_to_process, ready_to_process, files_organized_today,
                 files_organized_total, exc, signalVars, mainVars,
                 tick_now, histVars>>

\* self.observer.join() returns once the observer thread has ended
Join(e) ==
  /\ pc[e] = "join"
  /\ ~IsAlive(e)
  /\ pc' = [pc EXCEPT ![e] = "done"]
  /\ UNCHANGED <<decisions, callVars, fsVars, envVars, config, is_running, observer, events, cooldown_files,
                 entries_to_process, ready_to_process, files_organized_today,
                 files_organized_total, exc, signalVars, mainVars,
                 tick_now, histVars>>

\* ------------------------------------------------------- the watch thread
\* the callback stamping the path again on every event
_queue_item_for_processing_restamping(e, p) ==
  IF _should_process(p, config[e], files, dirs)
    THEN cooldown_files' = [cooldown_files EXCEPT ![e] = Append(Remove(@, p), <<p, now>>)]
    ELSE UNCHANGED cooldown_files

\* on_created / on_modified -> _queue_item_for_processing(event.src_path)
_queue_item_for_processing(e, p) ==
  IF _should_process(p, config[e], files, dirs) /\ p \notin Keys(cooldown_files[e])
    THEN cooldown_files' = [cooldown_files EXCEPT ![e] = Append(@, <<p, now>>)]
    ELSE UNCHANGED cooldown_files

Deliver(e, p) ==
  /\ IsAlive(e)
  /\ p \in events[e]
  /\ events' = [events EXCEPT ![e] = @ \ {p}]
  /\ _queue_item_for_processing(e, p)
  /\ UNCHANGED <<decisions, callVars, fsVars, envVars, pc, config, is_running, observer, entries_to_process,
                 ready_to_process, files_organized_today, files_organized_total, exc,
                 signalVars, mainVars,
                 tick_now, histVars>>

\* the observer thread ends some time after observer.stop()
ObserverExit(e) ==
  /\ observer[e] = "stopping"
  /\ observer' = [observer EXCEPT ![e] = "stopped"]
  /\ events' = [events EXCEPT ![e] = {}]
  /\ UNCHANGED <<decisions, callVars, fsVars, envVars, pc, config, is_running, cooldown_files,
                 entries_to_process, ready_to_process, files_organized_today,
                 files_organized_total, exc, signalVars, mainVars,
                 tick_now, histVars>>

\* ------------------------------------------------------ control surface
\* The GUI thread calls these; it is blocked while restart_engine_flow or an
\* undo_move runs.
Constructed(e) == pc[e] # "absent"
GuiIdle == restartPc = "idle" /\ undoing = NoCall

pause(e) ==
  /\ Constructed(e) /\ GuiIdle
  /\ IF is_running[e]
       THEN /\ is_running' = [is_running EXCEPT ![e] = FALSE]
            /\ lastStatus' = Status(FALSE)
            /\ sinceResume' = [sinceResume EXCEPT ![e] = IF @ = "resumed" THEN "no" ELSE @]
       ELSE UNCHANGED <<is_running, lastStatus, sinceResume>>
  /\ UNCHANGED <<decisions, callVars, fsVars, envVars, pc, config, observer, events, cooldown_files,
                 entries_to_process, ready_to_process, files_organized_today,
                 files_organized_total, exc, errorLogs, mainVars,
                 tick_now, stopSignal>>

resume(e) ==
  /\ Constructed(e) /\ GuiIdle
  /\ IF ~is_running[e]
       THEN /\ is_running' = [is_running EXCEPT ![e] = TRUE]
            /\ lastStatus' = Status(TRUE)
            /\ sinceResume' = [sinceResume EXCEPT ![e] = "resumed"]
       ELSE UNCHANGED <<is_running, lastStatus, sinceResume>>
  /\ UNCHANGED <<decisions, callVars, fsVars, envVars, pc, config, observer, events, cooldown_files,
                 entries_to_process, ready_to_process, files_organized_today,
                 files_organized_total, exc, errorLogs, mainVars,
                 tick_now, stopSignal>>

\* stop(): if self.observer.is_alive(): self.observer.stop()
StopObserver(e) == [observer EXCEPT ![e] = IF @ = "alive" THEN "stopping" ELSE @]

stop(e) ==
  /\ Constructed(e) /\ GuiIdle
  /\ observer' = StopObserver(e)
  /\ stopSignal' = [stopSignal EXCEPT ![e] = TRUE]
  /\ UNCHANGED <<decisions, callVars, fsVars, envVars, pc, config, is_running, events, cooldown_files,
                 entries_to_process, ready_to_process, files_organized_today,
                 files_organized_total, exc, signalVars, mainVars,
                 tick_now, sinceResume>>

request_status(e) ==
  /\ Constructed(e) /\ GuiIdle
  /\ lastStatus' = Status(is_running[e])
  /\ UNCHANGED <<decisions, callVars, fsVars, envVars, engineVars, errorLogs, mainVars>>

\* ------------------------------------------------- folder decision buttons
\* FolderDecisionWidget._undo_action -> undo_move(new_path, original_path), up
\* to the resolved destination; the button is disabled afterwards
UndoBegin(d) ==
  /\ GuiIdle
  /\ d \in decisions /\ d.undo_enabled
  /\ decisions' = (decisions \ {d}) \cup {[d EXCEPT !.undo_enabled = FALSE]}
  /\ IF ~Exists(d.new_path, files, dirs)
       THEN /\ errorLogs' = errorLogs + 1
            /\ UNCHANGED undoing
       ELSE /\ undoing' = [fn |-> "undo_move",
                           source_path |-> d.new_path,
                           original_path |-> d.original_path,
                           destination_path |-> _resolve_conflict(d.original_path, files, dirs)]
            /\ UNCHANGED errorLogs
  /\ UNCHANGED <<fsVars, envVars, engineVars, lastStatus, mainVars,
                 undoLogs, config_changed, saves, clobbered, restored, probe>>

\* undo_move: shutil.move(source_path, destination_path) inside try/except;
\* the entry arriving in the target folder is a watch event
UndoMove(moveOk) ==
  /\ undoing.fn = "undo_move"
  /\ undoing' = NoCall
  /\ LET moved == ShutilMove(undoing.source_path, undoing.destination_path, files, dirs)
     IN IF moveOk /\ moved.ok
          THEN /\ files' = moved.files
               /\ dirs' = moved.dirs
               /\ clobbered' = clobbered \cup moved.hit
               /\ restored' = restored \cup {q \in {undoing.destination_path} :
                                                Len(q) = 1 /\ moved.hit = {}}
               /\ undoLogs' = undoLogs + 1
               /\ events' = Notify({q \in {undoing.destination_path} : Len(q) = 1})
               /\ UNCHANGED errorLogs
          ELSE /\ errorLogs' = errorLogs + 1
               /\ UNCHANGED <<fsVars, clobbered, restored, undoLogs, events>>
  /\ UNCHANGED <<envVars, pc, config, is_running, observer, cooldown_files,
                 entries_to_process, ready_to_process, files_organized_today,
                 files_organized_total, exc, tick_now, histVars, lastStatus, mainVars,
                 decisions, config_changed, saves, probe>>

\* add_to_ignore_list without the membership test
add_to_ignore_list_unchecked(e, item_name) ==
  /\ Constructed(e)
  /\ config' = [config EXCEPT ![e].ignore_list = Append(@, item_name)]
  /\ configFile' = [config[e] EXCEPT !.ignore_list = Append(@, item_name),
                                      !.exists = TRUE]
  /\ saves' = saves + 1
  /\ config_changed' = config_changed + 1

\* add_to_ignore_list(item_name): append once, save_config(self.config),
\* config_changed.emit(); otherwise only a log message
add_to_ignore_list(e, item_name) ==
  /\ Constructed(e)
  /\ IF item_name \notin Range(config[e].ignore_list)
       THEN /\ config' = [config EXCEPT ![e].ignore_list = Append(@, item_name)]
            /\ configFile' = [config[e] EXCEPT !.ignore_list = Append(@, item_name),
                                                !.exists = TRUE]
            /\ saves' = saves + 1
            /\ config_changed' = config_changed + 1
       ELSE UNCHANGED <<config, configFile, saves, config_changed>>

\* FolderDecisionWidget._ignore_action; the button is disabled afterwards
IgnoreFolder(d) ==
  /\ GuiIdle
  /\ d \in decisions /\ d.ignore_enabled
  /\ decisions' = (decisions \ {d}) \cup {[d EXCEPT !.ignore_enabled = FALSE]}
  /\ add_to_ignore_list(d.engine, BaseName(d.original_path))
  /\ UNCHANGED <<fsVars, now, touched, pc, is_running, observer, events, cooldown_files,
                 entries_to_process, ready_to_process, files_organized_today,
                 files_organized_total, exc, tick_now, histVars, signalVars, mainVars,
                 undoing, undoLogs, clobbered, restored, probe>>

\* ------------------------------------------------------- the environment
File(n) == [name |-> n, isdir |-> FALSE, inner |-> {}]
Dir(n, inside) == [name |-> n, isdir |-> TRUE, inner |-> inside]

\* what the user drops into the target folder
Downloads == {File(ReportPdf), File(Others)}

EnvCreate(x) ==
  /\ touched < MaxCreates
  /\ ~Exists(<<x.name>>, files, dirs)
  /\ touched' = touched + 1
  /\ IF x.isdir
       THEN /\ dirs' = dirs \cup {<<x.name>>}
            /\ files' = files \cup {<<x.name, f>> : f \in x.inner}
       ELSE /\ files' = files \cup {<<x.name>>}
            /\ UNCHANGED dirs
  /\ events' = Notify({<<x.name>>})
  /\ UNCHANGED <<decisions, callVars, now, configFile, pc, config, is_running, observer, cooldown_files,
                 entries_to_process, ready_to_process, files_organized_today,
                 files_organized_total, exc, signalVars, mainVars,
                 tick_now, histVars>>

\* the user (or a download in progress) writes to an entry again
EnvModify(x) ==
  /\ touched < MaxCreates
  /\ Watching # {}
  /\ Exists(<<x.name>>, files, dirs)
  /\ touched' = touched + 1
  /\ events' = Notify({<<x.name>>})
  /\ UNCHANGED <<decisions, callVars, fsVars, now, configFile, pc, config, is_running, observer, cooldown_files,
                 entries_to_process, ready_to_process, files_organized_today,
                 files_organized_total, exc, signalVars, mainVars,
                 tick_now, histVars>>

\* the user removes an entry of the target folder
EnvDelete(x) ==
  /\ IF x.isdir THEN <<x.name>> \in dirs ELSE <<x.name>> \in files
  /\ files' = {q \in files : ~IsPrefix(<<x.name>>, q)}
  /\ dirs' = {q \in dirs : ~IsPrefix(<<x.name>>, q)}
  /\ UNCHANGED <<decisions, callVars, envVars, engineVars, signalVars, mainVars>>

\* the watch reports the watched folder itself as modified, as it does on
\* some platforms when an entry of the folder is added or removed
EnvTargetModified ==
  /\ Watching # {}
  /\ errorLogs < MaxErrorLogs
  /\ events' = Notify({<<>>})
  /\ UNCHANGED <<decisions, callVars, fsVars, envVars, pc, config, is_running, observer,
                 cooldown_files, entries_to_process, ready_to_process,
                 files_organized_today, files_organized_total, exc, signalVars, mainVars,
                 tick_now, histVars>>

Tick ==
  /\ now < MaxTime
  /\ now' = now + 1
  /\ UNCHANGED <<decisions, callVars, fsVars, touched, configFile, engineVars, signalVars, mainVars>>

\* -------------------------------------------------- restart coordinator
MissingConfig == [RawConfig("smart_scan") EXCEPT !.exists = FALSE]
BadTargetConfig == [RawConfig("smart_scan") EXCEPT !.target_folder = "gone"]
ConfigFiles == {RawConfig("smart_scan"), MissingConfig, BadTargetConfig}

\* the settings are saved, or config.json is edited or removed
EditConfig(f) ==
  /\ restartPc = "idle"
  /\ f # configFile
  /\ configFile' = f
  /\ UNCHANGED <<decisions, callVars, fsVars, now, touched, engineVars, signalVars, mainVars>>

Absent == {e \in EngineIds : pc[e] = "absent"}

\* restart_engine_flow up to time.sleep(1): current_engine.stop()
RestartStop ==
  /\ restartPc = "idle"
  /\ Absent # {}
  /\ errorLogs < MaxErrorLogs
  /\ IF current_engine # 0
       THEN /\ observer' = StopObserver(current_engine)
            /\ stopSignal' = [stopSignal EXCEPT ![current_engine] = TRUE]
       ELSE UNCHANGED <<observer, stopSignal>>
  /\ restartPc' = "sleep"
  /\ UNCHANGED <<decisions, callVars, fsVars, envVars, pc, config, is_running, events, cooldown_files,
                 entries_to_process, ready_to_process, files_organized_today,
                 files_organized_total, exc, tick_now, sinceResume, signalVars,
                 current_engine, guiEngine, restartResult>>

\* restart_engine_flow after the sleep: start_engine_thread, hand the new
\* engine to the GUI; a ConfigError is logged and signalled
RestartStart ==
  /\ restartPc = "sleep"
  /\ restartPc' = "idle"
  /\ LET loaded == load_config(configFile)
         new == CHOOSE e \in Absent : \A o \in Absent : e <= o
     IN IF loaded.ok
          THEN /\ Construct(new, loaded.config)
               /\ current_engine' = new
               /\ guiEngine' = new
               /\ restartResult' = "ok"
               /\ UNCHANGED errorLogs
          ELSE /\ errorLogs' = errorLogs + 1
               /\ restartResult' = "failed"
               /\ UNCHANGED <<pc, config, is_running, observer, cooldown_files,
                              files_organized_today, files_organized_total,
                              current_engine, guiEngine>>
  /\ UNCHANGED <<decisions, callVars, fsVars, envVars, events, entries_to_process, ready_to_process, exc,
                 tick_now, histVars, lastStatus>>

\* ------------------------------------------------------ specifications
\* run(): the initial scan, the loop, the finally block
Starting(e) == InitialScanCollect(e) \/ ScanOrganize(e) \/ StartObserver(e)
Looping(e) == LoopCheck(e) \/ FlushItem(e) \/ FlushDone(e) \/ Sleep(e)
Ending(e) == FinallyStop(e) \/ Join(e)
Worker(e) == Starting(e) \/ Looping(e) \/ Ending(e)

Next ==
  \/ Worker(1)
  \/ \E p \in {<<x.name>> : x \in Downloads} \cup {<<Docs>>, <<Others>>} : Deliver(1, p)
  \/ ObserverExit(1)
  \/ pause(guiEngine)
  \/ resume(guiEngine)
  \/ stop(guiEngine)
  \/ request_status(guiEngine)
  \/ \E x \in Downloads : EnvCreate(x)
  \/ \E x \in Downloads : EnvModify(x)
  \/ \E x \in Downloads : EnvDelete(x)
  \/ Tick

Spec == Init /\ [][Next]_vars

\* The worker thread and the observer thread are scheduled by the operating
\* system: each keeps taking its steps.
FairSpec == Spec /\ WF_vars(Worker(1)) /\ WF_vars(ObserverExit(1))

\* Restarts: several engine instances, one file to organize
Restartable == {File(ReportPdf)}

NextRestart ==
  \/ \E e \in EngineIds : Worker(e)
  \/ \E e \in EngineIds : Deliver(e, <<ReportPdf>>) \/ Deliver(e, <<Docs>>)
  \/ \E e \in EngineIds : ObserverExit(e)
  \/ \E f \in ConfigFiles : EditConfig(f)
  \/ RestartStop
  \/ RestartStart
  \/ \E x \in Restartable : EnvCreate(x)
  \/ Tick

SpecRestart == Init /\ [][NextRestart]_vars

\* The eligibility filter: every kind of rejected entry beside eligible ones,
\* every folder strategy, with and without an ignore list
FilterDownloads ==
  {File(ReportPdf), File(NotesTmp), File(Desktop), File(Hidden), Dir(Project, {Inner})}

InitFilter ==
  /\ InitCommon
  /\ dirs = {}
  /\ \E strategy \in Strategies, ignored \in {<<>>, RawConfig("smart_scan").ignore_list} :
       configFile = [RawConfig(strategy) EXCEPT !.ignore_list = ignored]
  /\ config = [e \in EngineIds |-> load_config(configFile).config]

NextFilter ==
  \/ Starting(1)
  \/ Looping(1)
  \/ \E p \in {<<x.name>> : x \in FilterDownloads} \cup {<<Docs>>, <<Others>>} : Deliver(1, p)
  \/ \E x \in FilterDownloads : EnvCreate(x)
  \/ Tick

SpecFilter == InitFilter /\ [][NextFilter]_vars

\* The managed category folders: a file that carries a category's name, the
\* folders of an earlier run, every folder strategy
ManagedDownloads == {File(ReportPdf), File(Docs), Dir(Project, {Inner})}

InitManaged ==
  /\ InitCommon
  /\ dirs \in {{}, {<<Docs>>, <<Others>>}}
  /\ \E strategy \in Strategies : configFile = RawConfig(strategy)
  /\ config = [e \in EngineIds |-> load_config(configFile).config]

NextManaged ==
  \/ Worker(1)
  \/ \E p \in {<<x.name>> : x \in ManagedDownloads} \cup {<<Others>>} : Deliver(1, p)
  \/ ObserverExit(1)
  \/ \E x \in ManagedDownloads : EnvCreate(x)
  \/ \E x \in ManagedDownloads : EnvDelete(x)
  \/ Tick

SpecManaged == InitManaged /\ [][NextManaged]_vars

\* Folder decisions: a folder and a file to organize, the undo and ignore
\* buttons, pause and resume, while the user keeps dropping entries
UndoDownloads == {File(ReportPdf), Dir(Project, {Inner})}

NextUndo ==
  \/ Starting(1)
  \/ Looping(1)
  \/ \E p \in {<<x.name>> : x \in UndoDownloads} \cup {<<Docs>>} : Deliver(1, p)
  \/ \E d \in decisions : UndoBegin(d)
  \/ \E moveOk \in BOOLEAN : UndoMove(moveOk)
  \/ \E d \in decisions : IgnoreFolder(d)
  \/ pause(guiEngine)
  \/ resume(guiEngine)
  \/ request_status(guiEngine)
  \/ \E x \in UndoDownloads : EnvCreate(x)
  \/ Tick

SpecUndo == Init /\ [][NextUndo]_vars

\* The conflict resolver alone: a desired path in Docs, and any set of
\* existing files among the desired path and its numbered variants
ATxt == <<"a", ".", "txt">>
ATarGz == <<"a", ".", "tar", ".", "gz">>
Plain == <<"a">>
ResolverNames == {ATxt, ATarGz, Plain, Hidden}
Variants(n) == {<<Docs, n>>} \cup {Numbered(<<Docs, n>>, k) : k \in 1..MaxConflicts}

InitResolver ==
  /\ InitEngine
  /\ dirs = {<<Docs>>}
  /\ \E n \in ResolverNames : files \in SUBSET Variants(n)
  /\ configFile = RawConfig("smart_scan")
  /\ config = [e \in EngineIds |-> load_config(configFile).config]

\* self._resolve_conflict(destination_path)
Resolve(p) ==
  /\ probe' = [fn |-> "_resolve_conflict", path |-> p,
               result |-> _resolve_conflict(p, files, dirs), again |-> <<>>]
  /\ UNCHANGED <<fsVars, envVars, engineVars, signalVars, mainVars, decisions,
                 undoing, undoLogs, config_changed, saves, clobbered, restored>>

\* the same call once more, nothing having changed on disk
ResolveAgain ==
  /\ probe.fn = "_resolve_conflict" /\ probe.again = <<>>
  /\ probe' = [probe EXCEPT !.again = _resolve_conflict(probe.path, files, dirs)]
  /\ UNCHANGED <<fsVars, envVars, engineVars, signalVars, mainVars, decisions,
                 undoing, undoLogs, config_changed, saves, clobbered, restored>>

NextResolver ==
  \/ \E n \in ResolverNames : Resolve(<<Docs, n>>)
  \/ ResolveAgain

SpecResolver == InitResolver /\ [][NextResolver]_vars

\* The rule matcher alone: rule tables of one or two entries in either
\* order, flat and nested, spelled in mixed case; files of every spelling
Raw == <<"Raw">>
Web == <<"Web">>
Sub(k, exts) == [key |-> k, exts |-> exts]

RuleEntries ==
  { FlatRule(Docs, << <<".", "PDF">>, <<".", "docx">> >>),
    FlatRule(Docs, << <<".", "pdf">>, <<".", "png">> >>),
    FlatRule(Pics, << <<".", "png">>, <<".", "Pdf">> >>),
    NestedRule(Pics, << Sub(Raw, << <<".", "CR2">>, <<".", "png">> >>),
                        Sub(ExtensionsKey, << <<".", "PNG">>, <<".", "jpg">> >>),
                        Sub(Web, << <<".", "cr2">>, <<".", "gif">> >>) >>) }

RuleTables ==
  {<<r>> : r \in RuleEntries}
    \cup {t \in RuleEntries \X RuleEntries : t[1].name # t[2].name}

MatcherFiles ==
  { <<ReportPdf>>, <<Inner>>, <<<<"scan", ".", "Pdf">>>>, <<<<"shot", ".", "png">>>>,
    <<<<"shot", ".", "PNG">>>>, <<<<"img", ".", "CR2">>>>, <<<<"img", ".", "cr2">>>>,
    <<<<"pic", ".", "jpg">>>>, <<<<"anim", ".", "gif">>>>, <<<<"data", ".", "xyz">>>>,
    <<Plain>>, <<ATarGz>> }

InitMatcher ==
  /\ InitEngine
  /\ files = MatcherFiles /\ dirs = {}
  /\ \E t \in RuleTables : configFile = [RawConfig("smart_scan") EXCEPT !.rules = t]
  /\ config = [e \in EngineIds |-> load_config(configFile).config]

\* self._get_category(path)
Categorize(p) ==
  /\ probe' = [fn |-> "_get_category", path |-> p,
               result |-> _get_category(p, config[1], files, dirs)]
  /\ UNCHANGED <<fsVars, envVars, engineVars, signalVars, mainVars, decisions,
                 undoing, undoLogs, config_changed, saves, clobbered, restored>>

NextMatcher == \E p \in MatcherFiles : Categorize(p)

SpecMatcher == InitMatcher /\ [][NextMatcher]_vars

\* The folder classifier alone: the folder project with any of six files in
\* it and below it, two categories in either table order, every strategy
FolderTables ==
  {t \in RuleTables : /\ Len(t) = 2
                      /\ \E i \in 1..2 : t[i].kind = "dict"
                      /\ \E i \in 1..2 : <<".", "docx">> \in Range(t[i].list)}

Below == <<"sub">>
FolderContent ==
  { <<Project, Inner>>, <<Project, ReportPdf>>, <<Project, <<"shot", ".", "png">>>>,
    <<Project, <<"data", ".", "xyz">>>>,
    <<Project, Below, <<"img", ".", "cr2">>>>, <<Project, Below, <<"anim", ".", "gif">>>> }

InitFolder ==
  /\ InitEngine
  /\ files \in SUBSET FolderContent
  /\ dirs = {<<Project>>, <<Project, Below>>}
  /\ \E t \in FolderTables, strategy \in Strategies :
       configFile = [RawConfig(strategy) EXCEPT !.rules = t]
  /\ config = [e \in EngineIds |-> load_config(configFile).config]

\* self._get_category(path) for a folder; walkOk is whether os.walk ran
\* without raising (the except clause returns "Others")
ClassifyFolder(p, walkOk) ==
  /\ probe' = [fn |-> "_get_category", path |-> p, walk_ok |-> walkOk,
               result |-> IF config[1].folder_handling_strategy = "smart_scan" /\ ~walkOk
                            THEN <<Others, None>>
                            ELSE _get_category(p, config[1], files, dirs)]
  /\ UNCHANGED <<fsVars, envVars, engineVars, signalVars, mainVars, decisions,
                 undoing, undoLogs, config_changed, saves, clobbered, restored>>

NextFolder == \E walkOk \in BOOLEAN : ClassifyFolder(<<Project>>, walkOk)

SpecFolder == InitFolder /\ [][NextFolder]_vars

\* Start-up and restarts over every kind of config.json: main() has not yet
\* called start_engine_thread, no engine exists; one file waits in the target
\* folder and nothing else arrives, so the loop never has an item to flush
UnsetTargetConfig == [RawConfig("smart_scan") EXCEPT !.target_folder = ""]
LoadFiles == ConfigFiles \cup {UnsetTargetConfig}

InitLoad ==
  /\ files = {<<ReportPdf>>} /\ dirs = {}
  /\ now = 0 /\ touched = 0
  /\ configFile \in LoadFiles
  /\ pc = [e \in EngineIds |-> "absent"]
  /\ config = [e \in EngineIds |-> load_config(RawConfig("smart_scan")).config]
  /\ is_running = [e \in EngineIds |-> TRUE]
  /\ observer = [e \in EngineIds |-> "new"]
  /\ events = [e \in EngineIds |-> {}]
  /\ cooldown_files = [e \in EngineIds |-> <<>>]
  /\ entries_to_process = [e \in EngineIds |-> {}]
  /\ ready_to_process = [e \in EngineIds |-> <<>>]
  /\ files_organized_today = [e \in EngineIds |-> 0]
  /\ files_organized_total = [e \in EngineIds |-> 0]
  /\ exc = [e \in EngineIds |-> FALSE]
  /\ tick_now = [e \in EngineIds |-> 0]
  /\ stopSignal = [e \in EngineIds |-> FALSE]
  /\ sinceResume = [e \in EngineIds |-> "no"]
  /\ lastStatus = "none"
  /\ errorLogs = 0
  /\ current_engine = 0 /\ guiEngine = 0
  /\ restartPc = "main"
  /\ restartResult = "none"
  /\ decisions = {}
  /\ undoing = NoCall
  /\ undoLogs = 0
  /\ config_changed = 0
  /\ saves = 0
  /\ clobbered = {}
  /\ restored = {}
  /\ probe = NoCall

\* main(): start_engine_thread; a ConfigError makes main return
\* EXIT_CONFIG_ERROR before any engine or window exists
MainStart ==
  /\ restartPc = "main"
  /\ LET loaded == load_config(configFile)
     IN /\ probe' = [fn |-> "load_config", file |-> configFile, result |-> loaded]
        /\ IF loaded.ok
             THEN /\ Construct(1, loaded.config)
                  /\ current_engine' = 1
                  /\ guiEngine' = 1
                  /\ restartPc' = "idle"
                  /\ UNCHANGED errorLogs
             ELSE /\ errorLogs' = errorLogs + 1
                  /\ restartPc' = "exited"
                  /\ UNCHANGED <<pc, config, is_running, observer, cooldown_files,
                                 files_organized_today, files_organized_total,
                                 current_engine, guiEngine>>
  /\ UNCHANGED <<decisions, undoing, undoLogs, config_changed, saves, clobbered, restored,
                 fsVars, envVars, events, entries_to_process, ready_to_process, exc,
                 tick_now, histVars, lastStatus, restartResult>>

NextLoad ==
  \/ MainStart
  \/ \E e \in EngineIds : Starting(e) \/ LoopCheck(e) \/ FlushDone(e) \/ Sleep(e) \/ Ending(e)
  \/ \E e \in EngineIds : ObserverExit(e)
  \/ \E f \in LoadFiles : EditConfig(f)
  \/ RestartStop
  \/ RestartStart
  \/ Tick

SpecLoad == InitLoad /\ [][NextLoad]_vars

\* The pending map: the loop is running, report.PDF was seen at time 0 and
\* is still cooling down at time 1, while entries are created and written to
ObserveDownloads == {File(ReportPdf), File(Desktop), Dir(Project, {Inner})}

InitObserve ==
  /\ files = {<<ReportPdf>>} /\ dirs = {}
  /\ now = 1 /\ touched = 0
  /\ configFile = RawConfig("smart_scan")
  /\ config = [e \in EngineIds |-> load_config(configFile).config]
  /\ pc = [e \in EngineIds |-> IF e = 1 THEN "loop" ELSE "absent"]
  /\ is_running = [e \in EngineIds |-> TRUE]
  /\ observer = [e \in EngineIds |-> IF e = 1 THEN "alive" ELSE "new"]
  /\ events = [e \in EngineIds |-> {}]
  /\ cooldown_files = [e \in EngineIds |-> IF e = 1 THEN << <<<<ReportPdf>>, 0>> >> ELSE <<>>]
  /\ entries_to_process = [e \in EngineIds |-> {}]
  /\ ready_to_process = [e \in EngineIds |-> <<>>]
  /\ files_organized_today = [e \in EngineIds |-> 0]
  /\ files_organized_total = [e \in EngineIds |-> 0]
  /\ exc = [e \in EngineIds |-> FALSE]
  /\ tick_now = [e \in EngineIds |-> 0]
  /\ stopSignal = [e \in EngineIds |-> FALSE]
  /\ sinceResume = [e \in EngineIds |-> "no"]
  /\ lastStatus = Status(TRUE)
  /\ errorLogs = 0
  /\ current_engine = 1 /\ guiEngine = 1
  /\ restartPc = "idle"
  /\ restartResult = "none"
  /\ decisions = {}
  /\ undoing = NoCall
  /\ undoLogs = 0
  /\ config_changed = 0
  /\ saves = 0
  /\ clobbered = {}
  /\ restored = {}
  /\ probe = NoCall

NextObserve ==
  \/ Looping(1)
  \/ \E p \in {<<x.name>> : x \in ObserveDownloads} \cup {<<>>} : Deliver(1, p)
  \/ EnvTargetModified
  \/ \E x \in ObserveDownloads : EnvCreate(x)
  \/ \E x \in ObserveDownloads : EnvModify(x)
  \/ Tick

SpecObserve == InitObserve /\ [][NextObserve]_vars

\* Destinations: files of a flat category, of named sub-categories (one of
\* them named like its category), of "__extensions__" and of no category
DestRules ==
  << NestedRule(Pics, << Sub(Pics, << <<".", "png">> >>),
                         Sub(Raw, << <<".", "CR2">> >>),
                         Sub(ExtensionsKey, << <<".", "gif">> >>) >>),
     FlatRule(Docs, << <<".", "PDF">> >>) >>

DestFiles ==
  { <<ReportPdf>>, <<<<"shot", ".", "png">>>>, <<<<"img", ".", "cr2">>>>,
    <<<<"anim", ".", "gif">>>>, <<<<"data", ".", "xyz">>>> }

InitDest ==
  /\ InitEngine
  /\ files \in SUBSET DestFiles /\ dirs = {}
  /\ configFile = [RawConfig("smart_scan") EXCEPT !.rules = DestRules]
  /\ config = [e \in EngineIds |-> load_config(configFile).config]

NextDest == Starting(1)

SpecDest == InitDest /\ [][NextDest]_vars

\* Saving: the settings page saves another folder strategy while the engine
\* runs on the configuration it was built from; folders are organized and
\* their "Ignore Folder" buttons used
SaveFiles == {RawConfig(strategy) : strategy \in Strategies}

NextSave ==
  \/ Starting(1)
  \/ LoopCheck(1) \/ FlushDone(1) \/ Sleep(1)
  \/ EnvCreate(Dir(Project, {Inner}))
  \/ \E f \in SaveFiles : EditConfig(f)
  \/ \E d \in decisions : IgnoreFolder(d)

SpecSave == Init /\ [][NextSave]_vars

\* Liveness: report.PDF may arrive at any moment of run(), the user pauses
\* and resumes; the worker thread and the watch thread keep being scheduled
\* and time passes
NextLive ==
  \/ Starting(1)
  \/ Looping(1)
  \/ Deliver(1, <<ReportPdf>>)
  \/ EnvCreate(File(ReportPdf))
  \/ pause(guiEngine)
  \/ resume(guiEngine)
  \/ Tick

SpecLive ==
  /\ Init /\ [][NextLive]_vars
  /\ WF_vars(Starting(1) \/ Looping(1))
  /\ WF_vars(Deliver(1, <<ReportPdf>>))
  /\ WF_vars(Tick)

\* Status notifications: run() on the worker thread at the grain of its
\* statements, the control calls on the GUI thread
NextStatus ==
  \/ InitialScanCollect(1)
  \/ ScanOrganize(1)
  \/ ObserverStart(1)
  \/ EmitStatus(1)
  \/ Looping(1)
  \/ Deliver(1, <<ReportPdf>>)
  \/ pause(guiEngine)
  \/ resume(guiEngine)
  \/ request_status(guiEngine)
  \/ EnvCreate(File(ReportPdf))
  \/ Tick

SpecStatus == Init /\ [][NextStatus]_vars

\* ------------------------------------------------------------------ claims
Terminated(e) == pc[e] \in {"done", "crashed"}
Cooldown(e) == config[e].cooldown_period_seconds
Ripe(x, e) == tick_now[e] - x[2] > Cooldown(e)
TickEnds(e) == pc[e] = "flush" /\ pc'[e] # "flush"
Pending(cf) == {cf[i] : i \in 1..Len(cf)}

\* C1: from the moment pause() has returned until resume() is called (the
\* engine's flag says paused before and after the step), the engine moves no
\* item out of the target directory.
C1_NoMoveWhilePaused ==
  [][\A e \in EngineIds :
       (~is_running[e] /\ ~is_running'[e])
         => files_organized_total'[e] = files_organized_total[e]]_vars

\* C2: during a restart the old engine's worker has finished before the new
\* engine scans or moves: no two engine instances have scan or flush work in
\* progress against the target directory at the same time.
Working(e) ==
  \/ pc[e] = "scan" /\ entries_to_process[e] # {}
  \/ pc[e] = "flush" /\ ready_to_process[e] # <<>>

C2_NoTwoEnginesWork ==
  \A e1, e2 \in EngineIds : (e1 # e2 /\ Working(e1)) => ~Working(e2)

\* C3: once stop() has been called, in whatever state, the watch subscription
\* ends and the worker loop terminates.
C3_StopTerminates ==
  [](stopSignal[1] => <>(Terminated(1) /\ ~IsAlive(1)))

\* C4: a failure while organizing one item never ends the worker: no
\* exception escapes _organize_item, the initial scan and the loop go on.
C4_OrganizeFailureIsSkipped ==
  \A e \in EngineIds : ~exc[e] /\ pc[e] # "crashed"

\* C5: an entry is handed to categorization only at a tick where
\* now - first_seen > cooldown; when a tick of a running engine ends, every
\* entry that was that old at the tick has left the pending map; and an entry
\* that no longer exists leaves the map without any move.
C5_CooldownFlush ==
  [][\A e \in EngineIds :
       /\ (pc[e] = "flush" /\ ready_to_process'[e] # ready_to_process[e])
            => \A x \in Pending(cooldown_files[e]) :
                 x[1] = Head(ready_to_process[e])
                   => /\ Ripe(x, e)
                      /\ x \notin Pending(cooldown_files'[e])
                      /\ ~Exists(x[1], files, dirs)
                           => (files' = files /\ files_organized_total' = files_organized_total)
       /\ TickEnds(e) => \A x \in Pending(cooldown_files'[e]) : ~Ripe(x, e)]_vars

\* C6: a watch event received while the engine is paused still puts its
\* eligible path into the pending map, stamped with the current time; and when
\* the first tick after resume() ends, no pending entry that was older than
\* the cooldown and still exists on disk is left unprocessed.
C6_PausedEventsKeptAndFlushed ==
  [][\A e \in EngineIds :
       /\ \A p \in events[e] :
            ( /\ ~is_running[e]
              /\ p \notin events'[e]
              /\ observer'[e] = observer[e]
              /\ _should_process(p, config[e], files, dirs)
              /\ p \notin Keys(cooldown_files[e]) )
              => cooldown_files'[e] = Append(cooldown_files[e], <<p, now>>)
       /\ (TickEnds(e) /\ sinceResume[e] = "ticking")
            => \A x \in Pending(cooldown_files'[e]) :
                 Exists(x[1], files', dirs') => ~Ripe(x, e)]_vars

\* C7: a worker that ended because of an exception has marked the engine as
\* not running and the latest status notification says so.
C7_CrashedLoopMarkedStopped ==
  \A e \in EngineIds :
    (exc[e] /\ Terminated(e)) => (~is_running[e] /\ lastStatus = Status(FALSE))

\* C8: a restart whose configuration fails to load creates no engine, hands
\* none to the GUI and emits an error notification; and when it has ended no
\* engine is left running: every engine's watch subscription has been stopped
\* and none is still starting up.
StoppedOrStopping(e) == pc[e] \notin {"start", "scan"} /\ observer[e] # "alive"

C8_FailedRestartLeavesNoEngine ==
  [][(restartPc = "sleep" /\ restartPc' = "idle" /\ restartResult' = "failed")
       => /\ pc' = pc
          /\ current_engine' = current_engine
          /\ guiEngine' = guiEngine
          /\ errorLogs' = errorLogs + 1
          /\ \A e \in EngineIds : Constructed(e) => StoppedOrStopping(e)]_vars

\* C9: an entry whose base name or whose lowercased extension is in the
\* ignore list, or whose name begins with a dot, is never in the initial
\* scan's list nor in the pending map, and is never moved into a category
\* folder, whatever the ignore list holds.
IgnoreListed(n, e) ==
  \/ n \in Range(config[e].ignore_list)
  \/ (SplitExt(n) # <<>> /\ LowerName(SplitExt(n)) \in Range(config[e].ignore_list))
Dotted(n) == n # <<>> /\ n[1] = "."
Rejected(n, e) == IgnoreListed(n, e) \/ Dotted(n)

C9_RejectedNeverQueuedNorOrganized ==
  \A e \in EngineIds :
    /\ \A p \in entries_to_process[e] \cup Keys(cooldown_files[e]) \cup Range(ready_to_process[e]) :
         ~Rejected(BaseName(p), e)
    /\ Constructed(e) =>
         \A q \in files \cup dirs :
           (Len(q) = 2 /\ q[1] \in managed_categories(config[e])) => ~Rejected(q[2], e)

C9_Witness ==
  /\ pc[1] = "sleep" /\ events[1] = {} /\ now = MaxTime
  /\ files_organized_total[1] >= 1
  /\ \E x \in FilterDownloads : Rejected(x.name, 1) /\ <<x.name>> \in files

\* C10: the engine never queues a directory whose name is in its managed
\* category set, in the initial scan or on a live event, and never moves one,
\* under every folder-handling strategy.
ManagedDir(p, e, ds) == p \in ds /\ BaseName(p) \in managed_categories(config[e])

C10_ManagedDirNeverQueuedNorMoved ==
  [][\A e \in EngineIds :
       /\ \A p \in (entries_to_process'[e] \ entries_to_process[e])
                     \cup (Keys(cooldown_files'[e]) \ Keys(cooldown_files[e])) :
            ~ManagedDir(p, e, dirs)
       /\ files_organized_total'[e] # files_organized_total[e]
            => \A c \in managed_categories(config[e]) : <<c>> \in dirs => <<c>> \in dirs']_vars

\* C11: undo_move(current, original) on a current path that does not exist
\* changes nothing on disk and emits an error notification; otherwise the
\* destination it resolves is free and is exactly original when original is
\* free; when the call returns a notification has been emitted, and unless the
\* move failed the item with all it holds is at that destination.
UndoCalled(d) ==
  /\ undoing = NoCall
  /\ d \in decisions /\ d.undo_enabled
  /\ d \notin decisions'
  /\ (undoing' # NoCall \/ errorLogs' # errorLogs)

C11_UndoRestores ==
  [][/\ \A d \in decisions :
          UndoCalled(d) =>
            IF ~Exists(d.new_path, files, dirs)
              THEN /\ files' = files /\ dirs' = dirs
                   /\ errorLogs' = errorLogs + 1
                   /\ undoing' = NoCall
              ELSE /\ ~Exists(undoing'.destination_path, files, dirs)
                   /\ ~Exists(d.original_path, files, dirs)
                        => undoing'.destination_path = d.original_path
     /\ (undoing # NoCall /\ undoing' = NoCall) =>
          \/ /\ errorLogs' = errorLogs + 1
             /\ files' = files /\ dirs' = dirs
          \/ /\ undoLogs' = undoLogs + 1
             /\ files' = MoveSet(files, undoing.source_path, undoing.destination_path)
             /\ dirs' = MoveSet(dirs, undoing.source_path, undoing.destination_path)]_vars

\* C12: in every step both counters of an engine grow by one when that
\* engine's worker has just moved an item out of the target folder and stay as
\* they are in every other step (failed or skipped organize, undo, pause,
\* resume, status request, add-to-ignore); the first move of a fresh engine,
\* report.PDF to Docs/report.PDF, makes the today-count 1.
OrganizeStep(e, p) ==
  \/ pc[e] = "scan" /\ p \in entries_to_process[e] /\ p \notin entries_to_process'[e]
  \/ /\ pc[e] = "flush" /\ ready_to_process[e] # <<>>
     /\ p = Head(ready_to_process[e])
     /\ ready_to_process'[e] = Tail(ready_to_process[e])

MovedAway(p) == Exists(p, files, dirs) /\ ~Exists(p, files', dirs')

C12_CountersCountMoves ==
  [][\A e \in EngineIds :
       LET moves == IF \E p \in files \cup dirs : OrganizeStep(e, p) /\ MovedAway(p)
                      THEN 1 ELSE 0
       IN /\ files_organized_today'[e] = files_organized_today[e] + moves
          /\ files_organized_total'[e] = files_organized_total[e] + moves
          /\ ( /\ files_organized_today[e] = 0
               /\ OrganizeStep(e, <<ReportPdf>>) /\ MovedAway(<<ReportPdf>>) )
               => /\ <<Docs, ReportPdf>> \in files'
                  /\ files_organized_today'[e] = 1]_vars

C12_Witness ==
  /\ files_organized_today[1] = 2 /\ files_organized_total[1] = 2
  /\ <<Docs, ReportPdf>> \in files
  /\ undoLogs >= 1 /\ errorLogs >= 1 /\ saves >= 1
  /\ ~is_running[1]

\* C13: the first add_to_ignore(name) appends name once to the engine's live
\* ignore list and to the persisted configuration and emits
\* configuration-changed; a later call with the same name changes neither list,
\* persists nothing and emits no configuration-changed; no list ever holds a
\* name twice; and the running engine queues no item whose name is in its
\* live ignore list.
IgnoreCalled(d) ==
  /\ d \in decisions /\ d.ignore_enabled
  /\ d \notin decisions'
  /\ undoing' = undoing /\ errorLogs' = errorLogs

NoDuplicates(l) == Cardinality(Range(l)) = Len(l)

NewlyQueued(e) ==
  (Keys(cooldown_files'[e]) \ Keys(cooldown_files[e]))
    \cup (entries_to_process'[e] \ entries_to_process[e])

C13_AddToIgnoreIdempotent ==
  [][/\ \A d \in decisions :
          IgnoreCalled(d) =>
            LET e == d.engine
                name == BaseName(d.original_path)
            IN IF name \notin Range(config[e].ignore_list)
                 THEN /\ config'[e].ignore_list = Append(config[e].ignore_list, name)
                      /\ configFile'.ignore_list = Append(config[e].ignore_list, name)
                      /\ saves' = saves + 1
                      /\ config_changed' = config_changed + 1
                 ELSE /\ config' = config /\ configFile' = configFile
                      /\ saves' = saves
                      /\ config_changed' = config_changed
     /\ NoDuplicates(configFile'.ignore_list)
     /\ \A e \in EngineIds :
          /\ NoDuplicates(config'[e].ignore_list)
          /\ \A p \in NewlyQueued(e) : BaseName(p) \notin Range(config[e].ignore_list)]_vars

C13_Witness ==
  /\ saves = 1 /\ config_changed = 1
  /\ \E d1, d2 \in decisions :
       /\ d1 # d2 /\ d1.original_path = d2.original_path
       /\ ~d1.ignore_enabled /\ ~d2.ignore_enabled
       /\ BaseName(d1.original_path) \in Range(config[1].ignore_list)
       /\ d1.original_path \in dirs
  /\ undoLogs = 2
  /\ events[1] = {} /\ cooldown_files[1] = <<>> /\ pc[1] = "sleep"

\* C14: the conflict resolver returns the desired path when it does not
\* exist; otherwise "<stem> (<n>)<ext>" in the same directory for the smallest
\* n >= 1 whose path does not exist ("a (1).txt" for an existing "a.txt",
\* "a (2).txt" when that exists too); the returned path does not exist; and a
\* second call with nothing changed returns the same path.
Renamed(p, n) ==
  Parent(p) \o <<Stem(BaseName(p)) \o <<" ", "(">> \o Str(n) \o <<")">> \o Suffix(BaseName(p))>>

C14_ResolverSmallestFree ==
  probe.fn = "_resolve_conflict" =>
    LET p == probe.path
        r == probe.result
        taken(n) == Exists(Renamed(p, n), files, dirs)
    IN /\ ~Exists(p, files, dirs) => r = p
       /\ Exists(p, files, dirs) =>
            \E n \in 1..(MaxConflicts + 1) :
              /\ r = Renamed(p, n)
              /\ \A k \in 1..(n - 1) : taken(k)
       /\ ~Exists(r, files, dirs)
       /\ Parent(r) = Parent(p)
       /\ (p = <<Docs, ATxt>> /\ Exists(p, files, dirs))
            => r = IF ~Exists(<<Docs, <<"a", " ", "(", "1", ")", ".", "txt">>>>, files, dirs)
                     THEN <<Docs, <<"a", " ", "(", "1", ")", ".", "txt">>>>
                   ELSE IF ~Exists(<<Docs, <<"a", " ", "(", "2", ")", ".", "txt">>>>, files, dirs)
                     THEN <<Docs, <<"a", " ", "(", "2", ")", ".", "txt">>>>
                   ELSE r
       /\ probe.again # <<>> => probe.again = r

C14_Witness ==
  /\ probe.fn = "_resolve_conflict"
  /\ probe.path = <<Docs, ATxt>>
  /\ probe.result = <<Docs, <<"a", " ", "(", "2", ")", ".", "txt">>>>
  /\ probe.again = probe.result
  /\ <<Docs, <<"a", " ", "(", "3", ")", ".", "txt">>>> \in files

\* C15: when the extension of a file is registered, letter case aside, under
\* exactly one category/sub-category of config.json, categorization returns
\* that category/sub-category, however the extension is spelled in the file
\* name and in the rule table.
SameLetters(x, y) == LowerName(x) = LowerName(y)

Registrations(rules, ext) ==
  {<<rules[i].name, None>> :
     i \in {k \in 1..Len(rules) : /\ rules[k].kind = "list"
                                   /\ \E x \in Range(rules[k].list) : SameLetters(x, ext)}}
  \cup
  UNION {{<<rules[i].name, IF rules[i].dict[j].key = ExtensionsKey THEN None
                           ELSE rules[i].dict[j].key>> :
            j \in {k \in 1..Len(rules[i].dict) :
                     \E x \in Range(rules[i].dict[k].exts) : SameLetters(x, ext)}} :
         i \in {k \in 1..Len(rules) : rules[k].kind = "dict"}}

C15_CaseInsensitiveCategory ==
  probe.fn = "_get_category" =>
    LET ext == SplitExt(BaseName(probe.path))
        regs == Registrations(configFile.rules, ext)
    IN (ext # <<>> /\ Cardinality(regs) = 1) => probe.result \in regs

C15_Witness ==
  /\ probe.fn = "_get_category"
  /\ probe.path = <<<<"scan", ".", "Pdf">>>>
  /\ probe.result = <<Docs, None>>
  /\ Cardinality(Registrations(configFile.rules, <<".", "Pdf">>)) = 1
  /\ <<".", "PDF">> \in Range(configFile.rules[1].list)

\* C16: for a file the rule matcher returns the first entry of the rule table,
\* in table order, that lists the lowercased extension; in a nested entry a hit
\* under "__extensions__" yields no sub-category and comes before the named
\* sub-categories, of which the first in order wins; an empty extension or one
\* that no entry lists gives ("Others", none).
Lists(r, ext) ==
  IF r.kind = "list" THEN ext \in Range(r.list)
  ELSE \E j \in 1..Len(r.dict) : ext \in Range(r.dict[j].exts)

FirstMatch(rules, ext) ==
  LET hits == {i \in 1..Len(rules) : Lists(rules[i], ext)}
  IN IF ext = <<>> \/ hits = {} THEN <<Others, None>>
     ELSE LET r == rules[CHOOSE i \in hits : \A j \in hits : i <= j]
              flat == {j \in 1..Len(r.dict) : r.dict[j].key = ExtensionsKey /\ ext \in Range(r.dict[j].exts)}
              named == {j \in 1..Len(r.dict) : r.dict[j].key # ExtensionsKey /\ ext \in Range(r.dict[j].exts)}
          IN IF r.kind = "list" \/ flat # {} THEN <<r.name, None>>
             ELSE <<r.name, r.dict[CHOOSE j \in named : \A k \in named : j <= k].key>>

C16_FirstMatchWins ==
  probe.fn = "_get_category" =>
    probe.result = FirstMatch(config[1].rules, LowerName(SplitExt(BaseName(probe.path))))

C16_Witness ==
  /\ probe.fn = "_get_category"
  /\ probe.path = <<<<"shot", ".", "PNG">>>>
  /\ probe.result = <<Pics, None>>
  /\ Len(config[1].rules) = 2
  /\ config[1].rules[1].kind = "dict"
  /\ Lists(config[1].rules[2], <<".", "png">>)

\* C17: under smart_scan a folder is classified as the category with the
\* highest count of files, at any depth below it, that the rule matcher puts
\* in that category, the earliest such category in table order when several
\* share the highest count; when every count is zero, or the walk failed, the
\* folder is classified "Others".
Tally(folder, rules, i) ==
  Cardinality({f \in files :
                 /\ IsPrefix(folder, f) /\ f # folder
                 /\ FirstMatch(rules, LowerName(SplitExt(BaseName(f))))[1] = rules[i].name})

C17_FolderDominantCategory ==
  (probe.fn = "_get_category" /\ probe.path \in dirs
     /\ config[1].folder_handling_strategy = "smart_scan") =>
    LET rules == config[1].rules
        idx == 1..Len(rules)
        n(i) == Tally(probe.path, rules, i)
    IN IF ~probe.walk_ok \/ \A i \in idx : n(i) = 0
         THEN probe.result = <<Others, None>>
         ELSE \E i \in idx :
                /\ probe.result = <<rules[i].name, None>>
                /\ \A j \in idx : n(j) <= n(i)
                /\ \A j \in idx : j < i => n(j) < n(i)

C17_Witness ==
  /\ probe.fn = "_get_category" /\ probe.path = <<Project>> /\ probe.walk_ok
  /\ config[1].folder_handling_strategy = "smart_scan"
  /\ Tally(<<Project>>, config[1].rules, 1) = 2
  /\ Tally(<<Project>>, config[1].rules, 2) = 2
  /\ config[1].rules[1].name = Pics
  /\ probe.result = <<Pics, None>>
  /\ <<Project, Below, <<"img", ".", "cr2">>>> \in files

\* C18: loading fails with a file-missing error when config.json is absent
\* and with another error when the target folder is unset or is no existing
\* directory; whenever loading fails, at start-up or in a restart, no engine
\* is constructed or started.
LoadAttempt ==
  /\ restartPc \in {"main", "sleep"}
  /\ restartPc' # restartPc

BadTarget(file) == file.target_folder = "" \/ file.target_folder \notin ExistingDirs

C18_LoadErrors ==
  [][LoadAttempt =>
       /\ restartPc = "main" =>
            /\ ~configFile.exists =>
                 ~probe'.result.ok /\ probe'.result.error = "FileNotFoundError"
            /\ (configFile.exists /\ BadTarget(configFile)) =>
                 ~probe'.result.ok /\ probe'.result.error # "FileNotFoundError"
       /\ (~configFile.exists \/ BadTarget(configFile)) =>
            /\ pc' = pc /\ observer' = observer
            /\ current_engine' = current_engine /\ guiEngine' = guiEngine
            /\ errorLogs' = errorLogs + 1]_vars

C18_Witness ==
  /\ probe.fn = "load_config" /\ probe.file = UnsetTargetConfig
  /\ probe.result = [ok |-> FALSE, error |-> "ValueError"]
  /\ restartPc = "exited"
  /\ \A e \in EngineIds : pc[e] = "absent"

\* C19: a watch-event callback only records the entry as pending and moves
\* nothing; every move of an engine, organize and undo alike, runs on that
\* engine's one worker, so while an undo_move of the engine is between its
\* conflict resolution and its shutil.move the engine performs no organize
\* move (no two moves of one instance in progress at once).
CallbackStep(e) ==
  /\ observer' = observer
  /\ \E p \in events[e] : events'[e] = events[e] \ {p}

WorkerMoves(e) == \E p \in files \cup dirs : OrganizeStep(e, p) /\ MovedAway(p)

C19_MovesOnOneWorker ==
  [][\A e \in EngineIds :
       /\ CallbackStep(e) =>
            /\ files' = files /\ dirs' = dirs
            /\ files_organized_total' = files_organized_total
            /\ ready_to_process' = ready_to_process
       /\ WorkerMoves(e) => ~(undoing.fn = "undo_move" /\ guiEngine = e)]_vars

C19_Witness ==
  /\ undoing.fn = "undo_move"
  /\ files_organized_total[1] = 2
  /\ <<Docs, ReportPdf>> \in files
  /\ <<Docs, Project>> \in dirs

\* C20: when the resolved destination has come into existence between the
\* conflict resolution and the move, the move fails (an error is logged and
\* notified, the item stays where it was) and the entry at the destination is
\* neither overwritten nor merged into.
LateCollision ==
  /\ undoing.fn = "undo_move"
  /\ undoing' = NoCall
  /\ Exists(undoing.destination_path, files, dirs)

C20_LateCollisionFails ==
  [][LateCollision =>
       /\ files' = files /\ dirs' = dirs
       /\ clobbered' = clobbered
       /\ errorLogs' = errorLogs + 1
       /\ undoLogs' = undoLogs]_vars

C20_Witness ==
  /\ clobbered = {<<Project>>}
  /\ <<Project, Project, Inner>> \in files
  /\ undoLogs = 1 /\ errorLogs = 0

\* C21: an event for a path that is already pending leaves its first-seen
\* time and every other entry of the pending map as they are; a new entry is
\* made only for the event's path, only when that path is eligible and not
\* pending, and it carries the current time.
Stamp(cf, q) == CHOOSE t \in 0..MaxTime + 1 : \E i \in 1..Len(cf) : cf[i] = <<q, t>>

Observed(e, p) ==
  /\ observer' = observer
  /\ p \in events[e]
  /\ events'[e] = events[e] \ {p}

C21_ObserveKeepsFirstSeen ==
  [][\A e \in EngineIds : \A p \in events[e] :
       Observed(e, p) =>
         LET cf == cooldown_files[e]
             after == cooldown_files'[e]
         IN /\ \A q \in Keys(cf) : q \in Keys(after) /\ Stamp(after, q) = Stamp(cf, q)
            /\ Len(after) = Cardinality(Keys(after))
            /\ \A q \in Keys(after) \ Keys(cf) :
                 /\ q = p /\ Stamp(after, q) = now
                 /\ _should_process(p, config[e], files, dirs)
            /\ (_should_process(p, config[e], files, dirs) /\ p \notin Keys(cf))
                 => p \in Keys(after)]_vars

\* the one touch so far was a write to report.PDF, pending since time 0; its
\* event was delivered at time 1 or later and the entry kept its time
C21_Witness ==
  /\ touched = 1 /\ events[1] = {}
  /\ files = {<<ReportPdf>>} /\ dirs = {}
  /\ cooldown_files[1] = << <<<<ReportPdf>>, 0>> >>

\* C22: run() carries the initial scan through before anything else: the
\* scan lists every eligible entry of the target folder and hands each to
\* _organize_item at once (nothing waits in the pending map); only when none
\* is left does the watch subscription begin, and run() emits its status
\* notification after that.
Scanning(e) == pc[e] \in {"start", "scan"}

Subscribes(e) == observer[e] = "new" /\ observer'[e] = "alive"

Categorized(p) == _get_category(p, config[1], files, dirs)

SpecDestination(p) ==
  IF Categorized(p)[2] # None
    THEN <<Categorized(p)[1], Categorized(p)[2]>>
    ELSE <<Categorized(p)[1]>>

C23_DestinationDirectory ==
  [][\A p \in files \cup dirs :
       (OrganizeStep(1, p) /\ MovedAway(p)) =>
         /\ SpecDestination(p) \in dirs'
         /\ \E q \in (files' \cup dirs') \ (files \cup dirs) :
              Parent(q) = SpecDestination(p)]_vars

C23_Witness ==
  /\ <<Pics, <<"shot", ".", "png">>>> \in files
  /\ <<Pics, Raw, <<"img", ".", "cr2">>>> \in files
  /\ <<Pics, Pics>> \notin dirs

\* C24: every pending path is a direct child of the target folder; the
\* target folder itself, reported by a directory-modified event, is never
\* queued and never handed to _organize_item.
C24_OnlyChildrenPending ==
  \A e \in EngineIds :
    /\ \A p \in Keys(cooldown_files[e]) : Len(p) = 1
    /\ \A i \in 1..Len(ready_to_process[e]) : Len(ready_to_process[e][i]) = 1

\* the target folder was queued, flushed, and its move into its own category
\* folder failed
C24_Witness ==
  /\ touched = 0 /\ errorLogs = 1
  /\ <<>> \notin Keys(cooldown_files[1])
  /\ <<Docs, ReportPdf>> \in files /\ files_organized_total[1] = 1

\* C25: no item is moved by an engine while its base name or its lowercased
\* extension is in that engine's ignore list: an item queued and then added
\* to the ignore list before its cooldown expired is not organized at flush.
Ignored(e, p) ==
  LET ext == LowerName(SplitExt(BaseName(p)))
  IN \/ BaseName(p) \in Range(config[e].ignore_list)
     \/ (ext # <<>> /\ ext \in Range(config[e].ignore_list))

C25_IgnoredNeverMoved ==
  [][\A e \in EngineIds : \A p \in files \cup dirs :
       (OrganizeStep(e, p) /\ MovedAway(p)) => ~Ignored(e, p)]_vars

\* a second folder project was organized after "project" had been added to
\* the ignore list
C25_Witness ==
  /\ Project \in Range(config[1].ignore_list)
  /\ files_organized_total[1] = 2
  /\ \E q \in dirs : Len(q) = 2 /\ q # <<Docs, Project>> /\ Stem(BaseName(q))[1] = "project"

\* C26: an item that a successful undo_move has put back into the target
\* folder is not organized again by the engine: it stays at its restored path.
C26_RestoredStays ==
  [][\A p \in restored : Exists(p, files, dirs) => Exists(p, files', dirs')]_vars

\* the restored folder project was moved to Docs once more
C26_Witness ==
  /\ restored = {<<Project>>} /\ undoLogs = 1 /\ touched = 1
  /\ <<Project>> \notin dirs /\ <<Docs, Project>> \in dirs
  /\ files_organized_total[1] = 2

\* C27: add_to_ignore_list changes only the ignore_list of the persisted
\* configuration: every other field of config.json keeps the value written
\* last, also when the engine's own configuration is older than config.json
\* (the spelling of the rule extensions is not compared).
SameButIgnoreList(a, b) ==
  /\ a.exists = b.exists
  /\ a.target_folder = b.target_folder
  /\ a.cooldown_period_seconds = b.cooldown_period_seconds
  /\ a.folder_handling_strategy = b.folder_handling_strategy
  /\ Len(a.rules) = Len(b.rules)
  /\ \A i \in 1..Len(a.rules) : LowerRule(a.rules[i]) = LowerRule(b.rules[i])

C27_IgnoreKeepsOtherFields ==
  [][\A d \in decisions :
       IgnoreCalled(d) => SameButIgnoreList(configFile, configFile')]_vars

\* config.json holds a strategy saved after engine 1 was built, and a folder
\* decision of engine 1 offers "Ignore Folder"
C27_Witness ==
  /\ configFile.folder_handling_strategy = "move_to_others"
  /\ config[1].folder_handling_strategy = "smart_scan"
  /\ \E d \in decisions : d.engine = 1 /\ d.ignore_enabled

\* C28: an eligible item that appears in the target folder at any time
\* after run() began, and keeps existing, is eventually organized or reported
\* as a failure, unless the engine is paused meanwhile (it is never stopped
\* here); an item created during the initial scan is not missed.
\* The item arrives early enough for its cooldown to expire within MaxTime.
Arrived == <<ReportPdf>> \in files /\ now < MaxTime - 1
Handled == <<ReportPdf>> \notin files \/ errorLogs > 0

C28_EventuallyOrganized == Arrived ~> (Handled \/ ~is_running[1])

\* report.PDF lies in the target folder, unseen: the loop is ticking at the
\* last moment of time, nothing is pending and no event is waiting
C28_Witness ==
  /\ <<ReportPdf>> \in files /\ touched = 1
  /\ now = MaxTime /\ pc[1] = "sleep" /\ is_running[1]
  /\ cooldown_files[1] = <<>> /\ events[1] = {}
  /\ errorLogs = 0

\* C29: between control calls the value of the latest status notification
\* equals the engine's running flag, however run() on the worker thread
\* interleaves with pause(), resume() and request_status() on the GUI
\* thread; pause() when paused, resume() when running and request_status()
\* leave the flag as it is.
StatusCall == lastStatus' # lastStatus /\ pc' = pc

C29_StatusMatchesFlag ==
  /\ [](lastStatus # "none" => lastStatus = Status(is_running[1]))
  /\ [][StatusCall /\ lastStatus' = Status(is_running[1]) =>
          is_running' = is_running]_vars

\* run() emitted the value it had read before pause() changed the flag
C29_Witness ==
  /\ pc[1] = "loop" /\ ~is_running[1]
  /\ lastStatus = Status(TRUE)

\* C30: once stop() has taken effect and the worker loop has exited, the
\* engine does not report running any more: its running flag is off, no
\* status notification of resume() or request_status() says running, and
\* the worker flushes nothing further.
StoppedForGood(e) == stopSignal[e] /\ pc[e] = "done" /\ ~exc[e]

C30_StoppedStaysStopped ==
  /\ [](StoppedForGood(1) => ~is_running[1])
  /\ [][StoppedForGood(1) =>
          /\ lastStatus' # lastStatus => lastStatus' # Status(TRUE)
          /\ ~is_running'[1]
          /\ cooldown_files'[1] = cooldown_files[1]
          /\ files_organized_total' = files_organized_total]_vars

\* the loop has exited after stop() and the flag still says running
C30_Witness ==
  /\ StoppedForGood(1)
  /\ observer[1] = "stopped"
  /\ is_running[1]

====
